---------------------------- MODULE Spec2Model ----------------------------
(***************************************************************************)
(* A model of ASTCreate (src/main.cpp): one run of main -> grabInfo ->      *)
(* getWAVData -> assignValue* -> writeAST -> printHeader -> printAudio.     *)
(*                                                                         *)
(* Machine integers are kept at their width.  TLC's own integers stop at   *)
(* 2^31-1, so an unsigned n-byte integer is the sequence of its n bytes,   *)
(* least significant first: exactly its image in the memory of the         *)
(* little-endian (x86, MSVC) build the source targets.  fwrite of such a   *)
(* value emits the sequence as it stands, _byteswap_* reverses it.         *)
(***************************************************************************)
EXTENDS Integers, Sequences, FiniteSets, TLC

-----------------------------------------------------------------------------
(* Bounds of the model *)

\* Directives (argv tokens after the input file) parsed in one run.
MaxArgs == 2

-----------------------------------------------------------------------------
(* Fixed-width unsigned arithmetic on little-endian byte sequences *)

RECURSIVE LE(_, _)
\* The w low bytes of the natural number n.
LE(n, w) == IF w = 0 THEN <<>> ELSE <<n % 256>> \o LE(n \div 256, w - 1)

RECURSIVE Val(_)
\* The number a byte sequence stands for (for values TLC can hold).
Val(s) == IF s = <<>> THEN 0 ELSE s[1] + 256 * Val(Tail(s))

\* Conversion to a wider or narrower unsigned type: zero extension, truncation.
Resize(s, w) == [i \in 1..w |-> IF i <= Len(s) THEN s[i] ELSE 0]

IsZero(s) == \A i \in 1..Len(s) : s[i] = 0

RECURSIVE AddC(_, _, _)
AddC(a, b, c) ==
    IF a = <<>> THEN <<>>
    ELSE LET t == a[1] + b[1] + c
         IN  <<t % 256>> \o AddC(Tail(a), Tail(b), t \div 256)

\* a + b modulo 256^Len(a)
Add(a, b) == AddC(a, b, 0)

RECURSIVE MulC(_, _, _)
MulC(a, k, c) ==
    IF a = <<>> THEN <<>>
    ELSE LET t == a[1] * k + c
         IN  <<t % 256>> \o MulC(Tail(a), k, t \div 256)

\* a * k modulo 256^Len(a), for a small natural k
MulSmall(a, k) == MulC(a, k, 0)

RECURSIVE MulFrom(_, _, _)
MulFrom(a, b, i) ==
    IF i > Len(b) THEN [j \in 1..Len(a) |-> 0]
    ELSE Add(MulSmall(a, b[i]),
             <<0>> \o SubSeq(MulFrom(a, b, i + 1), 1, Len(a) - 1))

\* a * b modulo 256^Len(a)
Mul(a, b) == MulFrom(a, b, 1)

RECURSIVE DivFrom(_, _, _, _)
DivFrom(a, d, i, r) ==
    IF i = 0 THEN [q |-> <<>>, r |-> r]
    ELSE LET t    == r * 256 + a[i]
             rest == DivFrom(a, d, i - 1, t % d)
         IN  [q |-> Append(rest.q, t \div d), r |-> rest.r]

\* a / d and a % d for a small divisor d > 0 (unsigned, truncating)
Div(a, d) == DivFrom(a, d, Len(a), 0).q
Mod(a, d) == DivFrom(a, d, Len(a), 0).r

RECURSIVE LtFrom(_, _, _)
LtFrom(a, b, i) ==
    IF i = 0 THEN FALSE
    ELSE IF a[i] # b[i] THEN a[i] < b[i]
    ELSE LtFrom(a, b, i - 1)

\* a < b, unsigned, equal widths
Lt(a, b) == LtFrom(a, b, Len(a))

RECURSIVE Reverse(_)
Reverse(s) == IF s = <<>> THEN <<>> ELSE Append(Reverse(Tail(s)), s[1])

\* _byteswap_ulong / _byteswap_ushort
ByteSwap(s) == Reverse(s)

\* int -> unsigned int / uint64_t: two's complement in w bytes (sign extension)
FromInt(v, w) ==
    IF v >= 0 THEN LE(v, w)
    ELSE [i \in 1..w |-> 255 - LE(-v - 1, w)[i]]


-----------------------------------------------------------------------------
(* File names: sequences of one-character strings *)

Contains(s, c) == \E i \in 1..Len(s) : s[i] = c

\* string::substr(pos, n) with pos counted from 0, cut at the end of s
Substr(s, p, n) ==
    LET m == IF p + n > Len(s) THEN Len(s) - p ELSE n
    IN  [i \in 1..m |-> s[p + i]]

\* The last position (from 0) of one of the characters cs, or -1:
\* find_last_of with string::npos mapped to -1 as lines 209-213 do.
LastOf(s, cs) ==
    LET P == {i \in 1..Len(s) : s[i] \in cs}
    IN  IF P = {} THEN -1 ELSE (CHOOSE i \in P : \A j \in P : j <= i) - 1

\* Case folding of _strcmpi, for the letters that occur in the model's names.
Lower(c) == CASE c = "A" -> "a" [] c = "S" -> "s" [] c = "T" -> "t" [] OTHER -> c

EqNoCase(s, t) ==
    /\ Len(s) = Len(t)
    /\ \A i \in 1..Len(s) : Lower(s[i]) = Lower(t[i])

dotWav  == <<".", "w", "a", "v">>
dotWave == <<".", "w", "a", "v", "e">>
dotAst  == <<".", "a", "s", "t">>

-----------------------------------------------------------------------------
(* Input files.  A file is [head, pcmLen]: the bytes of head followed by     *)
(* pcmLen bytes of the fixed pattern PcmByte, so that a file of some ten     *)
(* thousand sample bytes is held by its head and a length.                 *)

tagRIFF == <<82, 73, 70, 70>>
tagWAVE == <<87, 65, 86, 69>>
tagFmt  == <<102, 109, 116, 32>>
tagData == <<100, 97, 116, 97>>
tagLIST == <<76, 73, 83, 84>>
tagSTRM == <<83, 84, 82, 77>>
tagBLCK == <<66, 76, 67, 75>>

\* Byte i (from 0) of the sample pattern: neighbouring bytes, and the bytes of
\* neighbouring samples and frames, differ.
PcmByte(i) == (i * 37 + 11) % 251

FileSize(f) == Len(f.head) + f.pcmLen

FileByte(f, p) ==
    IF p < Len(f.head) THEN f.head[p + 1] ELSE PcmByte(p - Len(f.head))

\* The n bytes at offset p (p + n <= FileSize(f))
FileBytes(f, p, n) == [i \in 1..n |-> FileByte(f, p + i - 1)]

\* The 16 bytes of a fmt chunk body: format tag, channels, sample rate,
\* byte rate, block align, bits per sample.
FmtBody(nc, rate, bits) ==
    LE(1, 2) \o LE(nc, 2) \o rate \o LE(0, 4) \o LE(2 * nc, 2) \o LE(bits, 2)

FmtChunk(nc, rate, bits) == tagFmt \o LE(16, 4) \o FmtBody(nc, rate, bits)

RiffHead == tagRIFF \o LE(0, 4) \o tagWAVE

\* A canonical WAV: RIFF header, fmt chunk, data chunk declaring `declared`
\* bytes, of which `avail` are in the file.
Wav(nc, rate, bits, declared, avail) ==
    [head   |-> RiffHead \o FmtChunk(nc, rate, bits) \o tagData \o LE(declared, 4),
     pcmLen |-> avail]

rate8000 == LE(8000, 4)
\* 2147483649 Hz = 0x80000001
rateHuge == <<1, 0, 0, 128>>

\* Chunk sizes at and above 2^31, which line 310 / 355 passes to fseek as a
\* long: 0xFFFFFFF8 = -8, 0xFFFFFFE0 = -32, 0x80000000 = -2^31; and 2^31 - 1.
sizeMinus8  == <<248, 255, 255, 255>>
sizeMinus32 == <<224, 255, 255, 255>>
sizeMin     == <<0, 0, 0, 128>>
sizeMax     == <<255, 255, 255, 127>>

WavFiles ==
    { Wav(1, rate8000, 16, 6, 6),            \* mono, 3 frames
      Wav(2, rate8000, 16, 13, 13),          \* stereo, 3 frames and a trailing byte
      Wav(3, rate8000, 16, 18, 18),          \* 3 channels, 3 frames
      Wav(1, rate8000, 16, 10080, 10080),    \* mono, exactly one block
      Wav(1, rate8000, 16, 10082, 10082),    \* mono, one block and one frame
      Wav(2, rate8000, 16, 20164, 20164),    \* stereo, one block and one frame
      Wav(1, rate8000, 16, 10082, 100),      \* data chunk longer than the file
      Wav(1, rate8000, 16, 0, 0),            \* empty data chunk
      Wav(1, LE(0, 4), 16, 6, 6),            \* sample rate 0
      Wav(1, rateHuge, 16, 6, 6),            \* sample rate above 2^31
      Wav(0, rate8000, 16, 6, 6),            \* 0 channels
      Wav(17, rate8000, 16, 68, 68),         \* 17 channels, 2 frames
      Wav(1, rate8000, 8, 6, 6),             \* 8 bits per sample
      [head |-> tagLIST \o LE(0, 4) \o tagWAVE \o FmtChunk(1, rate8000, 16)
                  \o tagData \o LE(6, 4), pcmLen |-> 6],          \* not RIFF
      [head |-> RiffHead \o tagLIST \o LE(4, 4) \o <<1, 2, 3, 4>>
                  \o tagData \o LE(6, 4), pcmLen |-> 6],          \* no fmt chunk
      [head |-> RiffHead \o FmtChunk(1, rate8000, 16)
                  \o tagLIST \o LE(2, 4) \o <<1, 2>>, pcmLen |-> 0], \* no data chunk
      [head |-> RiffHead \o tagLIST \o LE(4, 4) \o <<1, 2, 3, 4>>
                  \o tagData \o LE(4, 4) \o <<5, 6, 7, 8>>
                  \o FmtChunk(2, rate8000, 16), pcmLen |-> 0],    \* data before fmt
      [head |-> RiffHead \o tagFmt \o LE(16, 4) \o <<1, 0, 2>>, pcmLen |-> 0],
                                                                  \* cut inside fmt
      [head |-> tagRIFF \o <<0, 0>>, pcmLen |-> 0],               \* 6 bytes
      [head |-> RiffHead \o tagLIST \o sizeMinus8
                  \o FmtChunk(1, rate8000, 16)
                  \o tagData \o LE(6, 4), pcmLen |-> 6],   \* chunk of size -8 first
      [head |-> RiffHead \o FmtChunk(1, rate8000, 16)
                  \o tagLIST \o sizeMinus8
                  \o tagData \o LE(6, 4), pcmLen |-> 6],   \* the same after fmt
      [head |-> RiffHead \o FmtChunk(1, rate8000, 16)
                  \o tagLIST \o sizeMinus32
                  \o tagData \o LE(6, 4), pcmLen |-> 6],   \* size -32 after fmt
      [head |-> RiffHead \o tagLIST \o sizeMin
                  \o FmtChunk(1, rate8000, 16)
                  \o tagData \o LE(6, 4), pcmLen |-> 6],   \* size -2^31 first
      [head |-> RiffHead \o tagLIST \o sizeMax
                  \o FmtChunk(1, rate8000, 16)
                  \o tagData \o LE(6, 4), pcmLen |-> 6] }  \* size 2^31 - 1 first

InputNames ==
    { <<"a", ".", "w", "a", "v">>,
      <<"a", ".", "w", "a", "v", "e">>,
      <<"a", ".", "m", "p", "3">>,
      <<"a">>,
      <<"*", ".", "w", "a", "v">>,
      dotWav }

-----------------------------------------------------------------------------
(* The scratch buffer of printAudio *)

\* What malloc'ed memory may hold: any bytes; the model fills the buffer with
\* one of two values.
HeapFill == {170, 205}

\* The scratch buffer is [head, len, rest]: the len bytes of head, then the
\* byte `rest` up to its capacity blockSize * numChannels.
BlockByte(b, i) == IF i <= b.len THEN b.head[i] ELSE b.rest

\* A buffer that holds the byte g throughout (malloc's memory, memset)
Filled(g) == [head |-> <<>>, len |-> 0, rest |-> g]

-----------------------------------------------------------------------------
(* State *)

VARIABLES
    pc,               \* where the run is: "open", "riff", "scanFmt", "fmt",
                      \* "scanData", "dataSize", "args", "blocks", "done", "crashed"
    exit,             \* what grabInfo returned, 0 or 1; -1 while it runs
    fname,            \* ASTInfo::filename
    wav,              \* the input file's contents
    pos,              \* file position of sourceWAV
    src,              \* sourceWAV: "unopened", "open", "closed"
    numChannels, sampleRate, customSampleRate,
    numSamples, wavSize,
    isLooped, loopStart,
    astSize, excBlkSz, numBlocks, padding,
    argn,             \* directives parsed so far
    sawN,             \* history: a -n directive was parsed
    sawS,             \* history: a -s or -t directive was parsed
    lastReq,          \* history: the sample count the directive parsed last asked
                      \* the stream to end at (8 bytes), unset if it was no -e/-f
    srcSamples,       \* history: numSamples as getWAVData derived it
    dataPos,          \* history: the stream position getWAVData returned at
    scanAt,           \* history: the stream position at which the last turn of
                      \* the running sub-chunk scan began, -1 before its first
    outf,             \* outputAST: "unopened", "open", "closed"
    out,              \* the bytes written to outputAST
    dirMade,          \* CreateDirectory was called
    block,            \* the contents of the scratch buffer of printAudio
    blockMem,         \* the scratch buffer: "none", "allocated", "freed"
    x,                \* printAudio's block counter
    staleOut          \* history: sample bytes emitted that the fread of their own
                      \* block did not store and memset did not clear

fmtVars    == <<numChannels, sampleRate, customSampleRate>>
sizeVars   == <<numSamples, wavSize>>
optVars    == <<isLooped, loopStart>>
layoutVars == <<astSize, excBlkSz, numBlocks, padding>>
argVars    == <<argn, sawN, sawS, lastReq>>
srcVars    == <<srcSamples, dataPos, scanAt>>
outVars    == <<outf, out, dirMade>>
bufVars    == <<block, blockMem, x, staleOut>>

vars == <<pc, exit, fname, wav, pos, src, fmtVars, sizeVars, optVars,
          layoutVars, argVars, srcVars, outVars, bufVars>>

\* What a member the constructor does not initialise, or a local that a failed
\* fread left alone, may hold: any value; the model draws from a few.
Undef16 == {LE(0, 2), LE(2, 2), LE(16, 2)}
Undef32 == {LE(0, 4), LE(6, 4)}

\* A member that has not been assigned yet (the model never reads one), and
\* a history variable that records nothing yet.
unset == <<>>

\* class ASTInfo: isLooped and loopStart have initialisers, the rest is not
\* initialised before getWAVData / writeAST assign it.
Init ==
    /\ pc = "open"
    /\ exit = -1
    /\ fname \in InputNames
    /\ wav \in WavFiles
    /\ pos = 0
    /\ src = "unopened"
    /\ numChannels = unset /\ sampleRate = unset /\ customSampleRate = unset
    /\ numSamples = unset /\ wavSize = unset
    /\ isLooped = LE(65535, 2)
    /\ loopStart = LE(0, 4)
    /\ astSize = unset /\ excBlkSz = unset
    /\ numBlocks = unset /\ padding = unset
    /\ argn = 0 /\ sawN = FALSE /\ sawS = FALSE /\ lastReq = unset
    /\ srcSamples = unset /\ dataPos = -1 /\ scanAt = -1
    /\ outf = "unopened" /\ out = <<>> /\ dirMade = FALSE
    /\ block = Filled(0) /\ blockMem = "none" /\ x = 0 /\ staleOut = 0

\* `return 1` out of grabInfo
Return(code) == pc' = "done" /\ exit' = code

-----------------------------------------------------------------------------
(* grabInfo, lines 104-148: open the input, check and replace the extension *)

\* Lines 124-144: the extension check; the name with .wav / .wave cut off and
\* .ast added, or "bad" when the extension is neither.
AstName(name) ==
    LET n  == Len(name)
        t4 == IF n >= 4 THEN Substr(name, n - 4, 4) ELSE <<>>
        t5 == IF n >= 5 THEN Substr(name, n - 5, 5) ELSE t4
    IN  IF t4 = dotWav THEN Substr(name, 0, n - 4) \o dotAst
        ELSE IF t5 = dotWave THEN Substr(name, 0, n - 5) \o dotAst
        ELSE "bad"

GrabInfoOpen ==
    /\ pc = "open"
    /\ \/ /\ Contains(fname, "*")                    \* line 108
          /\ Return(1)
          /\ UNCHANGED <<fname, src>>
       \/ /\ ~Contains(fname, "*")                   \* fopen fails, line 115
          /\ Return(1)
          /\ UNCHANGED <<fname, src>>
       \/ /\ ~Contains(fname, "*")                   \* line 128-138
          /\ AstName(fname) = "bad"
          /\ src' = "closed"
          /\ Return(1)
          /\ UNCHANGED fname
       \/ /\ ~Contains(fname, "*")
          /\ AstName(fname) # "bad"
          /\ fname' = AstName(fname)
          /\ src' = "open"
          /\ pc' = "riff"
          /\ exit' = exit
    /\ UNCHANGED <<wav, pos, fmtVars, sizeVars, optVars, layoutVars, argVars,
                   srcVars, outVars, bufVars>>

-----------------------------------------------------------------------------
(* getWAVData, lines 276-367 *)

ReadOK(p, n) == p + n <= FileSize(wav)

\* The position after an fread of n bytes at p: a short read stops at the end.
AfterRead(p, n) ==
    IF ReadOK(p, n) THEN p + n
    ELSE IF p > FileSize(wav) THEN p ELSE FileSize(wav)

\* What an unchecked fread of n bytes at p leaves in its target.
ReadOrUndef(p, n, undef) ==
    IF ReadOK(p, n) THEN {FileBytes(wav, p, n)} ELSE undef

\* fseek(sourceWAV, chunkSZ, SEEK_CUR), lines 310 and 355: the unsigned chunk
\* size becomes the 32-bit signed long offset, so a size of 2^31 or more seeks
\* backwards, and a seek to before the start fails and leaves the position.
\* A position past the end is kept at the end: the next fread fails either way.
SeekCur(p, sz) ==
    IF sz[4] < 128
    THEN IF Val(sz) >= FileSize(wav) - p
         THEN (IF p > FileSize(wav) THEN p ELSE FileSize(wav))
         ELSE p + Val(sz)
    ELSE LET back1 == Val([i \in 1..4 |-> 255 - sz[i]])   \* -offset - 1
         IN  IF p > back1 THEN p - back1 - 1 ELSE p

\* Lines 285-294
CheckRiff ==
    /\ pc = "riff"
    /\ \E okR \in (IF ReadOK(0, 4) THEN {FileBytes(wav, 0, 4) = tagRIFF} ELSE BOOLEAN),
          okW \in (IF ReadOK(8, 4) THEN {FileBytes(wav, 8, 4) = tagWAVE} ELSE BOOLEAN) :
          IF okR /\ okW
          THEN pc' = "scanFmt" /\ exit' = exit
          ELSE Return(1)
    /\ pos' = AfterRead(8, 4)
    /\ UNCHANGED <<fname, wav, src, fmtVars, sizeVars, optVars, layoutVars,
                   argVars, srcVars, outVars, bufVars>>

\* One iteration of a sub-chunk scan for `tag` (lines 302-315 and 347-360):
\* found, the next position of the run is `found`; the stream ended, return 1.
ScanStep(tag, found) ==
    IF ~ReadOK(pos, 4)
    THEN pos' = AfterRead(pos, 4) /\ Return(1)
    ELSE IF FileBytes(wav, pos, 4) = tag
    THEN pos' = pos + 4 /\ pc' = found /\ exit' = exit
    ELSE IF ~ReadOK(pos + 4, 4)
    THEN pos' = AfterRead(pos + 4, 4) /\ Return(1)
    ELSE /\ pos' = SeekCur(pos + 8, FileBytes(wav, pos + 4, 4))
         /\ UNCHANGED <<pc, exit>>

ScanFmt ==
    /\ pc = "scanFmt"
    /\ ScanStep(tagFmt, "fmt")
    /\ scanAt' = pos
    /\ UNCHANGED <<fname, wav, src, fmtVars, sizeVars, optVars, layoutVars,
                   argVars, srcSamples, dataPos, outVars, bufVars>>

\* Lines 317-341, and the fseek of line 346.  The channel check of lines
\* 326-328 prints and goes on.
ReadFmt ==
    /\ pc = "fmt"
    /\ LET pCh   == AfterRead(pos + 4, 2)
           pRate == AfterRead(pCh, 2)
           pBits == AfterRead(pRate, 4) + 6
       IN  \E ch \in ReadOrUndef(pCh, 2, Undef16),
              rate \in ReadOrUndef(pRate, 4, Undef32),
              bits \in ReadOrUndef(pBits, 2, Undef16) :
              /\ numChannels' = ch
              /\ sampleRate' = rate
              /\ customSampleRate' = rate
              /\ IF bits # LE(16, 2)
                 THEN pos' = AfterRead(pBits, 2) /\ Return(1)
                 ELSE pos' = 12 /\ pc' = "scanData" /\ exit' = exit
    /\ scanAt' = -1
    /\ UNCHANGED <<fname, wav, src, sizeVars, optVars, layoutVars, argVars,
                   srcSamples, dataPos, outVars, bufVars>>

ScanData ==
    /\ pc = "scanData"
    /\ ScanStep(tagData, "dataSize")
    /\ scanAt' = pos
    /\ UNCHANGED <<fname, wav, src, fmtVars, sizeVars, optVars, layoutVars,
                   argVars, srcSamples, dataPos, outVars, bufVars>>

\* Line 364: numSamples = wavSize / (numChannels * 2)
SamplesOf(size, ch) == Div(size, Val(ch) * 2)

\* Lines 362-366.  With numChannels 0 the division of line 364 divides by
\* zero: the build's integer divide traps and the process dies.
ReadDataSize ==
    /\ pc = "dataSize"
    /\ pos' = AfterRead(pos, 4)
    /\ \E size \in ReadOrUndef(pos, 4, Undef32) :
          /\ wavSize' = size
          /\ IF IsZero(numChannels)
             THEN /\ pc' = "crashed"
                  /\ UNCHANGED <<numSamples, srcVars, exit>>
             ELSE /\ numSamples' = SamplesOf(size, numChannels)
                  /\ srcSamples' = SamplesOf(size, numChannels)
                  /\ dataPos' = AfterRead(pos, 4)
                  /\ scanAt' = scanAt
                  /\ pc' = "args"
                  /\ exit' = exit
    /\ UNCHANGED <<fname, wav, src, fmtVars, optVars, layoutVars, argVars,
                   outVars, bufVars>>

-----------------------------------------------------------------------------
(* assignValue, lines 191-273 *)

\* Lines 228-230 and 251-253: microseconds to samples,
\* (uint64_t) (time / 1000000.0 * sampleRate + 0.5), as the 12-byte exact
\* value of floor((time * rate + 500000) / 1000000).  The model's inputs are
\* ones for which the build's floating point gives this value exactly.
MicrosToSamples(time, rate) ==
    Div(Add(Mul(Resize(time, 12), rate), LE(500000, 12)), 1000000)

\* Lines 239-243 and 258-262: the clamp of an end request `samples` (uint64_t)
\* against the current numSamples.  The comparison and the assignment both
\* read the request through the cast (unsigned int) samples.
ClampEnd(cur, samples) ==
    IF Lt(cur, Resize(samples, 4)) THEN cur ELSE Resize(samples, 4)

\* Lines 243 and 262: wavSize = numSamples * 2 * numChannels
WavSizeOf(ns, ch) == MulSmall(MulSmall(ns, 2), Val(ch))

\* Lines 208-221: whether -o's name is taken ("illegal characters" otherwise)
LegalName(n) ==
    /\ \A c \in {"*", "?", "\"", "<", ">", "|"} : ~Contains(n, c)
    /\ ~(LastOf(n, {":"}) > LastOf(n, {"/", "\\"}))

\* What (int) rounded of line 231 may give: the value when it fits an int; the
\* conversion is undefined otherwise, and the build gives the integer
\* indefinite 0x80000000 or the low 32 bits.
LoopStartOfMicros(s12) ==
    IF IsZero(SubSeq(s12, 5, 12)) /\ s12[4] < 128
    THEN {Resize(s12, 4)}
    ELSE {<<0, 0, 0, 128>>, Resize(s12, 4)}

\* The values of the directives: what atoi / atol return for argv[count + 1].
StartSamples == {1, 7000, -1}
StartMicros  == {250, 2000000}
EndSamples   == {0, 2, 5040, 100000, -1}
EndMicros    == {0, 10, 250, 2000000}
Rates        == {0, 22050}
OutNames     == { <<"d", "/", "b">>, <<".", "A", "S", "T">>, <<"q", "*">> }

\* assignValue(c1, c2) for a flag f that takes a value v; `ok` is its result
\* 0, and the primed variables are what it assigned.
AssignValue(f, v) ==
    CASE f = "o" ->
           /\ fname' = IF LegalName(v) THEN v ELSE fname
           /\ lastReq' = unset
           /\ UNCHANGED <<optVars, sizeVars, customSampleRate>>
      [] f = "s" ->
           /\ loopStart' = FromInt(v, 4)
           /\ lastReq' = unset
           /\ UNCHANGED <<fname, isLooped, sizeVars, customSampleRate>>
      [] f = "t" ->
           /\ loopStart' \in
                 LoopStartOfMicros(MicrosToSamples(FromInt(v, 8), sampleRate))
           /\ lastReq' = unset
           /\ UNCHANGED <<fname, isLooped, sizeVars, customSampleRate>>
      [] f = "e" ->
           LET samples == FromInt(v, 8)
           IN  /\ numSamples' = ClampEnd(numSamples, samples)
               /\ wavSize' = WavSizeOf(numSamples', numChannels)
               /\ lastReq' = samples
               /\ UNCHANGED <<fname, optVars, customSampleRate>>
      [] f = "f" ->
           LET samples == Resize(MicrosToSamples(FromInt(v, 8), sampleRate), 8)
           IN  /\ numSamples' = ClampEnd(numSamples, samples)
               /\ wavSize' = WavSizeOf(numSamples', numChannels)
               /\ lastReq' = samples
               /\ UNCHANGED <<fname, optVars, customSampleRate>>
      [] f = "r" ->
           /\ customSampleRate' =
                 IF v = 0 THEN sampleRate ELSE FromInt(v, 4)
           /\ lastReq' = unset
           /\ UNCHANGED <<fname, optVars, sizeVars>>

\* Whether assignValue returns 1 without assigning: lines 235, 247, 254, 269.
AssignFails(f, v) ==
    \/ f = "e" /\ v = 0
    \/ f = "f" /\ (v = 0 \/ IsZero(MicrosToSamples(FromInt(v, 8), sampleRate)))
    \/ f = "x"

ValuesOf(f) ==
    CASE f = "o" -> OutNames
      [] f = "s" -> StartSamples
      [] f = "t" -> StartMicros
      [] f = "e" -> EndSamples
      [] f = "f" -> EndMicros
      [] f = "r" -> Rates
      [] f = "x" -> {0}

ValueFlags == {"o", "s", "t", "e", "f", "r", "x"}

-----------------------------------------------------------------------------
(* grabInfo, lines 150-180: one turn of the loop over argv[2..] *)

\* A token that does not start with '-' (line 174), or a '-' token that is
\* not two characters long (line 154): return 1.
ParseBadToken ==
    /\ pc = "args" /\ argn < MaxArgs
    /\ argn' = argn + 1
    /\ lastReq' = unset
    /\ Return(1)
    /\ UNCHANGED <<fname, wav, pos, src, fmtVars, sizeVars, optVars, layoutVars,
                   sawN, sawS, srcVars, outVars, bufVars>>

\* -n and -h (lines 158-171): assignValue, no value token consumed.
ParseSwitch ==
    /\ pc = "args" /\ argn < MaxArgs
    /\ argn' = argn + 1
    /\ lastReq' = unset
    /\ \E f \in {"n", "h"} :
          /\ isLooped' = IF f = "n" THEN LE(0, 2) ELSE isLooped
          /\ sawN' = (sawN \/ f = "n")
    /\ UNCHANGED <<pc, exit, fname, wav, pos, src, fmtVars, sizeVars, loopStart,
                   layoutVars, sawS, srcVars, outVars, bufVars>>

\* A flag that takes a value, as the last token (lines 158-160): exit = 1,
\* then count++ and line 170 reads argv[argc][1] through the null pointer
\* that ends argv: the process dies, or the read gives something and
\* line 176 returns 1.
ParseNoValue ==
    /\ pc = "args" /\ argn < MaxArgs
    /\ argn' = argn + 1
    /\ lastReq' = unset
    /\ \/ pc' = "crashed" /\ exit' = exit
       \/ Return(1)
    /\ UNCHANGED <<fname, wav, pos, src, fmtVars, sizeVars, optVars, layoutVars,
                   sawN, sawS, srcVars, outVars, bufVars>>

\* A flag with its value (lines 164-179).
ParseOption ==
    /\ pc = "args" /\ argn < MaxArgs
    /\ argn' = argn + 1
    /\ \E f \in ValueFlags : \E v \in ValuesOf(f) :
          IF AssignFails(f, v)
          THEN /\ Return(1)
               /\ lastReq' = unset
               /\ UNCHANGED <<fname, optVars, sizeVars, customSampleRate, sawS>>
          ELSE /\ AssignValue(f, v)
               /\ sawS' = (sawS \/ f \in {"s", "t"})
               /\ UNCHANGED <<pc, exit>>
    /\ UNCHANGED <<wav, pos, src, numChannels, sampleRate, layoutVars,
                   sawN, srcVars, outVars, bufVars>>

-----------------------------------------------------------------------------
(* writeAST, lines 370-450, with printHeader and the start of printAudio *)

\* unsigned int blockSize = 10080
blockSize == 10080

\* Layout without the reset of padding at lines 376-377
Layout_Pad32(ns, ws, ch) ==
    LET twice == MulSmall(ns, 2)
        exc   == Mod(twice, blockSize)
        full  == Div(twice, blockSize)
        nb    == IF exc # 0 THEN Add(full, LE(1, 4)) ELSE full
        pad   == 32 - (exc % 32)
    IN  [excBlkSz  |-> LE(exc, 4),
         numBlocks |-> nb,
         padding   |-> LE(pad, 4),
         astSize   |-> Add(Add(ws, MulSmall(nb, 32)),
                           MulSmall(LE(pad, 4), Val(ch)))]

\* Lines 373-381: excBlkSz, numBlocks, padding and astSize from numSamples,
\* wavSize and numChannels, in unsigned 32-bit arithmetic.
Layout(ns, ws, ch) ==
    LET twice == MulSmall(ns, 2)
        exc   == Mod(twice, blockSize)
        full  == Div(twice, blockSize)
        nb    == IF exc # 0 THEN Add(full, LE(1, 4)) ELSE full
        p     == 32 - (exc % 32)
        pad   == IF p = 32 THEN 0 ELSE p
    IN  [excBlkSz  |-> LE(exc, 4),
         numBlocks |-> nb,
         padding   |-> LE(pad, 4),
         astSize   |-> Add(Add(ws, MulSmall(nb, 32)),
                           MulSmall(LE(pad, 4), Val(ch)))]

\* Lines 384-388: the output name, .ast added unless it ends in .ast
OutName(n) ==
    LET tmp == IF Len(n) >= 4 THEN Substr(n, Len(n) - 4, Len(n)) ELSE <<>>
    IN  IF EqNoCase(tmp, dotAst) THEN n ELSE n \o dotAst

\* PrintHeader with the sample count of line 470 written without the swap
PrintHeader_Unswapped(ast, ch, looped, rate, ns, ls, nb, exc, pad) ==
    tagSTRM
    \o ByteSwap(ast)
    \o LE(268435712, 4)
    \o ByteSwap(ch)
    \o looped
    \o ByteSwap(rate)
    \o ns
    \o ByteSwap(ls)
    \o ByteSwap(ns)
    \o (IF nb = LE(1, 4) THEN ByteSwap(Add(exc, pad)) ELSE ByteSwap(LE(blockSize, 4)))
    \o LE(0, 4)
    \o LE(127, 4)
    \o LE(0, 4) \o LE(0, 4) \o LE(0, 4) \o LE(0, 4) \o LE(0, 4)

\* printHeader, lines 453-498: the 64 bytes it writes.  A value the code
\* passes through _byteswap_* is written reversed, any other as it lies in
\* memory.
PrintHeader(ast, ch, looped, rate, ns, ls, nb, exc, pad) ==
    tagSTRM
    \o ByteSwap(ast)
    \o LE(268435712, 4)
    \o ByteSwap(ch)
    \o looped
    \o ByteSwap(rate)
    \o ByteSwap(ns)
    \o ByteSwap(ls)
    \o ByteSwap(ns)
    \o (IF nb = LE(1, 4) THEN ByteSwap(Add(exc, pad)) ELSE ByteSwap(LE(blockSize, 4)))
    \o LE(0, 4)
    \o LE(127, 4)
    \o LE(0, 4) \o LE(0, 4) \o LE(0, 4) \o LE(0, 4) \o LE(0, 4)

\* Lines 401-402: a last block that would be empty is a whole block
FinalBlock(exc) == IF exc = LE(0, 4) THEN LE(blockSize, 4) ELSE exc

\* Lines 405-406: a loop start at or past the end becomes 0
FixLoopStart(ls, ns) == IF ~Lt(ls, ns) THEN LE(0, 4) ELSE ls

\* NoLoopStart with the reset of line 430 left out
NoLoopStart_Kept(ls, looped) == ls

\* Lines 428-431: without looping the loop start is 0
NoLoopStart(ls, looped) == IF looped = LE(0, 2) THEN LE(0, 4) ELSE ls

\* `return 1` out of writeAST: grabInfo closes the source (line 185) and
\* returns it.
WriteFails == Return(1) /\ src' = "closed"

WriteAST ==
    /\ pc = "args"
    /\ LET lay  == Layout(numSamples, wavSize, numChannels)
           name == OutName(fname)
           exc  == FinalBlock(lay.excBlkSz)
           ls   == FixLoopStart(loopStart, numSamples)
           ls2  == NoLoopStart(ls, isLooped)
       IN  /\ numBlocks' = lay.numBlocks
           /\ padding' = lay.padding
           /\ astSize' = lay.astSize
           /\ fname' = name
           /\ IF EqNoCase(name, dotAst)                           \* line 389
              THEN /\ WriteFails
                   /\ excBlkSz' = lay.excBlkSz
                   /\ UNCHANGED <<loopStart, outVars, bufVars>>
              ELSE IF lay.numBlocks = LE(0, 4)                    \* line 395
              THEN /\ WriteFails
                   /\ excBlkSz' = lay.excBlkSz
                   /\ UNCHANGED <<loopStart, outVars, bufVars>>
              ELSE IF customSampleRate = LE(0, 4)                 \* line 409
              THEN /\ WriteFails
                   /\ excBlkSz' = exc
                   /\ loopStart' = ls
                   /\ UNCHANGED <<outVars, bufVars>>
              ELSE /\ excBlkSz' = exc
                   /\ dirMade' = (Contains(name, "\\") \/ Contains(name, "/"))
                   /\ \/ /\ WriteFails                            \* line 421
                         /\ loopStart' = ls
                         /\ UNCHANGED <<outf, out, bufVars>>
                      \/ /\ outf' = "open"
                         /\ loopStart' = ls2
                         /\ out' = PrintHeader(lay.astSize, numChannels, isLooped,
                                               customSampleRate, numSamples, ls2,
                                               lay.numBlocks, exc, lay.padding)
                         /\ \E g \in HeapFill :
                               block' = Filled(g)
                         /\ blockMem' = "allocated"
                         /\ x' = 0
                         /\ pc' = "blocks"
                         /\ UNCHANGED <<exit, src, staleOut>>
    /\ lastReq' = unset
    /\ UNCHANGED <<wav, pos, fmtVars, sizeVars, isLooped, argn, sawN, sawS, srcVars>>

-----------------------------------------------------------------------------
(* printAudio, lines 501-546 *)

\* Line 529: fread(&block[0], length, 1, sourceWAV) stores the bytes the
\* file still holds, at most `length`, at the start of the buffer.
BytesRead(p, length) ==
    IF ReadOK(p, length) THEN length
    ELSE IF p >= FileSize(wav) THEN 0 ELSE FileSize(wav) - p

StoreRead(b, p, n) ==
    LET m == IF n > b.len THEN n ELSE b.len
    IN  [head |-> [i \in 1..m |->
                      IF i <= n THEN FileByte(wav, p + i - 1) ELSE b.head[i]] \o <<>>,
         len  |-> m,
         rest |-> b.rest]

\* Lines 531-532: block[y] = _byteswap_ushort(block[y]) for y < length / 2
SwapShorts(b, length) ==
    LET n == 2 * (length \div 2)
        m == IF n > b.len THEN n ELSE b.len
    IN  [head |-> [i \in 1..m |->
                      IF i <= n
                      THEN BlockByte(b, IF i % 2 = 1 THEN i + 1 ELSE i - 1)
                      ELSE b.head[i]] \o <<>>,
         len  |-> m,
         rest |-> b.rest]

\* ChannelBytes with z advancing by 1 instead of by offset at line 535
ChannelBytes_Stride1(b, length, y, offset) ==
    LET half == length \div 2
        cnt  == IF y >= half THEN 0 ELSE (half - y + offset - 1) \div offset
    IN  [j \in 1..(2 * cnt) |->
            BlockByte(b, 2 * (y * cnt + ((j - 1) \div 2)) + 1 + ((j - 1) % 2))]

\* Lines 535-537: the samples block[z], z = y, y + offset, ... < length / 2
ChannelBytes(b, length, y, offset) ==
    LET half == length \div 2
        cnt  == IF y >= half THEN 0 ELSE (half - y + offset - 1) \div offset
    IN  [j \in 1..(2 * cnt) |->
            BlockByte(b, 2 * (y + ((j - 1) \div 2) * offset) + 1 + ((j - 1) % 2))]

RECURSIVE Channels(_, _, _, _, _)
\* Lines 534-543: channel y and the channels after it, each followed by
\* `pad` zero bytes
Channels(b, length, y, offset, pad) ==
    IF y >= offset THEN <<>>
    ELSE ChannelBytes(b, length, y, offset) \o [j \in 1..pad |-> 0]
         \o Channels(b, length, y + 1, offset, pad)

\* One turn of the loop of line 512, for block x.
PrintBlock ==
    /\ pc = "blocks"
    /\ x < Val(numBlocks)
    /\ LET last   == (x = Val(numBlocks) - 1)
           nc     == Val(numChannels)
           length == IF last THEN Val(excBlkSz) * nc ELSE blockSize * nc
           padded == IF last THEN Add(excBlkSz, padding) ELSE LE(blockSize, 4)
           b0     == IF last THEN Filled(0) ELSE block
           n      == BytesRead(pos, length)
       IN  /\ block' = SwapShorts(StoreRead(b0, pos, n), length)
           /\ pos' = AfterRead(pos, length)
           /\ out' = out \o tagBLCK \o ByteSwap(padded) \o [j \in 1..24 |-> 0]
                         \o Channels(block', length, 0, nc,
                                     IF last THEN 2 * ((Val(padding) + 1) \div 2) ELSE 0)
           /\ staleOut' = staleOut + (IF last THEN 0 ELSE length - n)
    /\ x' = x + 1
    /\ UNCHANGED <<pc, exit, fname, wav, src, fmtVars, sizeVars, optVars,
                   layoutVars, argVars, srcVars, outf, dirMade, blockMem>>

\* FinishAudio with writeAST returning 1 at line 449
FinishAudio_Returns1 ==
    /\ pc = "blocks"
    /\ x = Val(numBlocks)
    /\ blockMem' = "freed"
    /\ outf' = "closed"
    /\ src' = "closed"
    /\ Return(1)
    /\ UNCHANGED <<fname, wav, pos, fmtVars, sizeVars, optVars, layoutVars,
                   argVars, srcVars, out, dirMade, block, x, staleOut>>

\* Lines 545, 447-449 and 185-186: free(block), fclose(outputAST), return 0,
\* fclose(sourceWAV).
FinishAudio ==
    /\ pc = "blocks"
    /\ x = Val(numBlocks)
    /\ blockMem' = "freed"
    /\ outf' = "closed"
    /\ src' = "closed"
    /\ Return(0)
    /\ UNCHANGED <<fname, wav, pos, fmtVars, sizeVars, optVars, layoutVars,
                   argVars, srcVars, out, dirMade, block, x, staleOut>>

Next ==
    \/ GrabInfoOpen
    \/ CheckRiff
    \/ ScanFmt
    \/ ReadFmt
    \/ ScanData
    \/ ReadDataSize
    \/ ParseBadToken
    \/ ParseSwitch
    \/ ParseNoValue
    \/ ParseOption
    \/ WriteAST
    \/ PrintBlock
    \/ FinishAudio

Spec == Init /\ [][Next]_vars

-----------------------------------------------------------------------------
(* The layout computation on its own: every 32-bit data size of interest and
   every legal channel count, through line 364 and lines 373-402. *)

LayoutSizes ==
    {LE(v, 4) : v \in {0, 1, 2, 3, 30, 31, 32, 33, 62, 10078, 10079, 10080,
                        10081, 10082, 20160, 161280, 322560, 2147483647}}
    \cup {<<0, 0, 0, 128>>, <<1, 0, 0, 128>>, <<0, 96, 255, 255>>,
          <<254, 255, 255, 255>>, <<255, 255, 255, 255>>}

LayoutInit ==
    /\ pc = "size"
    /\ exit = -1
    /\ fname = <<"a", ".", "a", "s", "t">>
    /\ wav \in {Wav(1, rate8000, 16, 6, 6)}
    /\ pos = 0
    /\ src = "open"
    /\ numChannels \in {LE(c, 2) : c \in 1..16}
    /\ sampleRate = rate8000
    /\ customSampleRate = rate8000
    /\ wavSize \in LayoutSizes
    /\ numSamples = unset
    /\ isLooped = LE(65535, 2)
    /\ loopStart = LE(0, 4)
    /\ astSize = unset
    /\ excBlkSz = unset
    /\ numBlocks = unset
    /\ padding = unset
    /\ argn = 0
    /\ sawN = FALSE
    /\ sawS = FALSE
    /\ lastReq = unset
    /\ srcSamples = unset
    /\ dataPos = -1
    /\ scanAt = -1
    /\ outf = "unopened"
    /\ out = <<>>
    /\ dirMade = FALSE
    /\ block = Filled(0)
    /\ blockMem = "none"
    /\ x = 0
    /\ staleOut = 0

\* Line 364: numSamples = wavSize / (numChannels * 2)
LayoutSamples ==
    /\ pc = "size"
    /\ numSamples' = SamplesOf(wavSize, numChannels)
    /\ srcSamples' = SamplesOf(wavSize, numChannels)
    /\ pc' = "args"
    /\ UNCHANGED <<exit, fname, wav, pos, src, fmtVars, wavSize, optVars,
                   layoutVars, argVars, dataPos, scanAt, outVars, bufVars>>

\* Lines 373-381, the test of line 395 and the adjustment of lines 401-402
LayoutBlocks ==
    /\ pc = "args"
    /\ LET lay == Layout(numSamples, wavSize, numChannels)
       IN  /\ numBlocks' = lay.numBlocks
           /\ padding' = lay.padding
           /\ astSize' = lay.astSize
           /\ IF lay.numBlocks = LE(0, 4)
              THEN /\ excBlkSz' = lay.excBlkSz
                   /\ WriteFails
              ELSE /\ excBlkSz' = FinalBlock(lay.excBlkSz)
                   /\ pc' = "laid"
                   /\ UNCHANGED <<exit, src>>
    /\ UNCHANGED <<fname, wav, pos, fmtVars, sizeVars, optVars, argVars,
                   srcVars, outVars, bufVars>>

LayoutNext == LayoutSamples \/ LayoutBlocks

LayoutSpec == LayoutInit /\ [][LayoutNext]_vars

-----------------------------------------------------------------------------
(* Properties *)

\* The n bytes of the output at offset off (from 0)
Field(o, off, n) == SubSeq(o, off + 1, off + n)

\* bytes is the big-endian encoding of the value held (least significant byte
\* first) in word
IsBE(bytes, word) ==
    /\ Len(bytes) = Len(word)
    /\ \A i \in 1..Len(word) : bytes[i] = word[Len(word) + 1 - i]

Zeros(n) == [i \in 1..n |-> 0]

\* fopen of the output succeeded; printHeader runs in the same step
HeaderWritten == outf # "unopened"

\* C1 (as claimed): once a channel count outside 1..16 has been read from the
\* fmt chunk, no sample count is derived from it, writeAST is never started,
\* and the run ends with getWAVData's failure.
C1_InvalidChannelCountFails ==
    (numChannels # unset /\ Val(numChannels) \notin 1..16) =>
        /\ numSamples = unset
        /\ numBlocks = unset
        /\ outf = "unopened"
        /\ pc \in {"done", "crashed"} => (pc = "done" /\ exit = 1)

\* C2 (as claimed): in a run that returned success, the astBodySize at header
\* offset 0x04 is, big-endian, the number of bytes written after the 64-byte
\* header.
C2_BodySizeExact ==
    (pc = "done" /\ exit = 0) =>
        IsBE(Field(out, 4, 4), LE(Len(out) - 64, 4))

\* The header claim of C3 with the four bytes at 0x28 left open: the header
\* is 64 bytes; the fields at 0x04..0x20 are the big-endian encodings of
\* astSize, 0x00010010, numChannels, customSampleRate, numSamples, loopStart,
\* numSamples and the first block's size; 0x24..0x27 and 0x2C..0x3F are zero.
HeaderAsClaimed(volume) ==
    HeaderWritten =>
        /\ Len(out) >= 64
        /\ (pc = "blocks" /\ x = 0) => Len(out) = 64
        /\ IsBE(Field(out, 4, 4), astSize)
        /\ Field(out, 8, 4) = <<0, 1, 0, 16>>
        /\ IsBE(Field(out, 12, 2), numChannels)
        /\ IsBE(Field(out, 16, 4), customSampleRate)
        /\ IsBE(Field(out, 20, 4), numSamples)
        /\ IsBE(Field(out, 24, 4), loopStart)
        /\ IsBE(Field(out, 28, 4), numSamples)
        /\ IsBE(Field(out, 32, 4),
                IF numBlocks = LE(1, 4) THEN Add(excBlkSz, padding)
                                        ELSE LE(blockSize, 4))
        /\ Field(out, 36, 4) = Zeros(4)
        /\ Field(out, 40, 4) = volume
        /\ Field(out, 44, 20) = Zeros(20)

\* C3 (as claimed): the header is as above and the field at 0x28 decodes
\* big-endian to 0x7F, i.e. is 00 00 00 7F.
C3_VolumeBigEndian == HeaderAsClaimed(<<0, 0, 0, 127>>)

\* C3 (amended): the header is as above and the field at 0x28 is 7F 00 00 00:
\* the byte at 0x28 is 0x7F, the field decodes big-endian to 0x7F000000.
C3_HeaderLayout == HeaderAsClaimed(<<127, 0, 0, 0>>)

\* C3's case: a header of a stream of several blocks, with a loop start and a
\* custom sample rate, has been written.
C3_Witness ==
    /\ pc = "blocks" /\ x = 0 /\ Len(out) = 64
    /\ numBlocks = LE(2, 4)
    /\ loopStart # LE(0, 4)
    /\ customSampleRate # sampleRate

\* C4 (as claimed): right after an end directive (-e, or -f converted) that
\* asked for v samples, v > 0, the sample count is the source's totalSamples
\* if v exceeds it and v otherwise, whatever v and the directives before.
C4_EndRequestClamped ==
    (pc = "args" /\ lastReq # unset) =>
        numSamples = (IF Lt(Resize(srcSamples, 8), lastReq)
                      THEN srcSamples ELSE Resize(lastReq, 4))

\* C5: a run that ended in failure (returned 1, or died) never opened the
\* output and wrote no byte of it; output is opened and written only in a run
\* that is still writing blocks or has returned success.
C5_FailureWritesNothing ==
    /\ ((pc = "done" /\ exit = 1) \/ pc = "crashed") =>
           (outf = "unopened" /\ out = <<>>)
    /\ (outf # "unopened" \/ out # <<>>) =>
           (pc = "blocks" \/ (pc = "done" /\ exit = 0))

\* C5's case: writeAST has computed a layout of at least one block and then
\* refused the zero sample rate given with -r.
C5_Witness ==
    /\ pc = "done" /\ exit = 1
    /\ numBlocks # unset /\ numBlocks # LE(0, 4)
    /\ customSampleRate = LE(0, 4)

\* C6 (as claimed): when the run has returned, the input stream, the output
\* stream and the scratch buffer are each released if they were acquired.
C6_AllReleased ==
    pc = "done" =>
        /\ src # "open"
        /\ outf # "open"
        /\ blockMem # "allocated"

\* C8: in a written header the loop start (0x18) is below the sample count
\* (0x14); if -n was parsed the loop flag (0x0E) is 0x0000 and the loop start
\* 0, otherwise the flag is 0xFFFF.
C8_LoopHeader ==
    HeaderWritten =>
        /\ Lt(Reverse(Field(out, 24, 4)), Reverse(Field(out, 20, 4)))
        /\ sawN => (Field(out, 14, 2) = <<0, 0>> /\ Field(out, 24, 4) = Zeros(4))
        /\ ~sawN => Field(out, 14, 2) = <<255, 255>>

\* C8's case: a header written after both a -n and a -s/-t directive.
C8_Witness == HeaderWritten /\ sawN /\ sawS /\ argn = 2

\* C7: in a run that returned success over a file holding all the samples it
\* encodes, the body is, block after block: "BLCK", the big-endian block size
\* (10080, or final payload + padding), 24 zero bytes, then for each channel c
\* in ascending order the k samples of frames b*5040 .. b*5040+k-1 of channel
\* c, each the two source bytes at interleaved position frame*numChannels + c
\* in swapped order, followed on the final block by paddingBytes zero bytes.
\* Nothing else is in the body, and the blocks hold numSamples frames in all.
C7_BlocksPlanar ==
    (/\ pc = "done"
     /\ exit = 0
     /\ dataPos + 2 * Val(numSamples) * Val(numChannels) <= FileSize(wav)) =>
        LET nc  == Val(numChannels)
            ns  == Val(numSamples)
            nb  == Val(numBlocks)
            pad == Val(padding)
            fin == Val(excBlkSz)
            K(b) == IF b = nb - 1 THEN fin \div 2 ELSE blockSize \div 2
            P(b) == IF b = nb - 1 THEN pad ELSE 0
            Start(b) == 64 + b * (32 + nc * blockSize)
        IN  /\ Len(out) = Start(nb - 1) + 32 + nc * (fin + pad)
            /\ (nb - 1) * (blockSize \div 2) + fin \div 2 = ns
            /\ \A b \in 0..(nb - 1) :
                  /\ Field(out, Start(b), 4) = tagBLCK
                  /\ IsBE(Field(out, Start(b) + 4, 4), LE(2 * K(b) + P(b), 4))
                  /\ Field(out, Start(b) + 8, 24) = Zeros(24)
                  /\ \A c \in 0..(nc - 1) :
                        LET base == Start(b) + 32 + c * (2 * K(b) + P(b))
                        IN  /\ \A k \in 0..(K(b) - 1) :
                                  LET sp == dataPos
                                            + 2 * ((b * (blockSize \div 2) + k) * nc + c)
                                  IN  /\ out[base + 2 * k + 1] = FileByte(wav, sp + 1)
                                      /\ out[base + 2 * k + 2] = FileByte(wav, sp)
                            /\ \A j \in 1..P(b) : out[base + 2 * K(b) + j] = 0

\* C7's case: a stereo stream of two blocks, the last one padded, has been
\* written from a file that holds all of its samples.
C7_Witness ==
    /\ pc = "done" /\ exit = 0
    /\ numChannels = LE(2, 2)
    /\ numBlocks = LE(2, 4)
    /\ padding # LE(0, 4)
    /\ dataPos + 2 * Val(numSamples) * Val(numChannels) <= FileSize(wav)

\* C9: past the layout computation, totalSamples*2 has not wrapped, numBlocks
\* is ceil(totalSamples*2 / 10080), the final block's payload is
\* (totalSamples*2) mod 10080 or 10080 when that is 0, the padding is an even
\* number in 0..30 that brings the final payload to a multiple of 32, and is 0
\* when totalSamples*2 is a multiple of 10080.
C9_LayoutArithmetic ==
    pc \in {"laid", "blocks"} =>
        /\ numSamples[4] < 128
        /\ LET ns == Val(numSamples)
               r  == 2 * (ns % (blockSize \div 2))
           IN  /\ ns > 0
               /\ Val(numBlocks) = ns \div (blockSize \div 2)
                                   + (IF ns % (blockSize \div 2) = 0 THEN 0 ELSE 1)
               /\ Val(excBlkSz) = (IF r = 0 THEN blockSize ELSE r)
               /\ Val(padding) \in {2 * i : i \in 0..15}
               /\ (Val(excBlkSz) + Val(padding)) % 32 = 0
               /\ r = 0 => Val(padding) = 0

\* C9's case: the layout of the largest sample count a 32-bit data size gives,
\* for which totalSamples*2 needs all 32 bits.
C9_Witness ==
    /\ pc = "laid"
    /\ numSamples = LE(2147483647, 4)
    /\ numBlocks = LE(426089, 4)

\* C10 (as claimed): no byte of the audio body comes from a part of the
\* scratch buffer that the read for its block did not fill.
C10_NoStaleBytes == staleOut = 0

\* C11 (as claimed): a turn of either sub-chunk scan that neither found its
\* tag nor failed at the end of the stream has left the stream position
\* strictly forward of where the turn began, past the 8-byte header of the
\* chunk it skipped, whatever 32-bit size the chunk declares.
C11_ScanAdvances ==
    (pc \in {"scanFmt", "scanData"} /\ scanAt >= 0) => pos >= scanAt + 8

=============================================================================
